---------------------------- MODULE Spec2Model ----------------------------
(***************************************************************************)
(* Model of core_grades/searchwidget/basewidget                            *)
(* (src/grade/amd/src/searchwidget/basewidget.js).                         *)
(*                                                                         *)
(* One widget instance: init() waits for the body promise, injects the     *)
(* body, shows the loader, renders the full dataset and wires the input    *)
(* (debounced) and clear-click listeners.  Every await of the source is a  *)
(* separate step, so that the other tasks of the page (user events,        *)
(* timers, pending template renders, the host closing the dropdown)        *)
(* interleave exactly where the event loop lets them.                      *)
(***************************************************************************)
EXTENDS Naturals, Sequences, FiniteSets

(***************************************************************************)
(* Bounds of the model: the number of user events (input events and clear  *)
(* clicks), the number of template renders or replacements that fail, and  *)
(* the granularity of time in ms.                                          *)
(***************************************************************************)
MaxEvents == 2
MaxFailures == 1
TickMs == 150

(***************************************************************************)
(* The debounce delay of the input listener (basewidget.js line 98).       *)
(***************************************************************************)
DebounceWait == 300

(***************************************************************************)
(* Values.  Text is a sequence of characters: an item of the dataset and   *)
(* a search query are both such sequences.                                 *)
(***************************************************************************)
Queries == { <<>>, <<"a">>, <<"b">> }

Datasets == { <<>>, << <<"a", "b">>, <<"b">>, <<"a">> >> }

Bodies == {"<div>x</div>", "<div>y</div>"}

UnsearchableContents == {"null", "", "<p>extra</p>"}

BodyErrors == {"network", "denied"}

TemplateError == "templateError"

ReplaceError == "replaceError"

(***************************************************************************)
(* What the caller may hand to bodyPromiseResolver: the body markup, or a  *)
(* promise of it (which fulfils with the markup or rejects).               *)
(***************************************************************************)
ResolverValues ==
    [kind : {"plain"}, state : {"fulfilled"}, value : Bodies]
    \cup [kind : {"promise"}, state : {"fulfilled"}, value : Bodies]
    \cup [kind : {"promise"}, state : {"rejected"}, value : BodyErrors]

VARIABLES
    pc,                  \* where init's then-callback stands
    data,                \* init's argument data
    unsearchableContent, \* init's argument unsearchableContent
    initPromise,         \* the promise init returned
    bodyPromise,         \* the promise of promisesAndResolvers
    resolverCalls,       \* the arguments bodyPromiseResolver was called with
    content,             \* widgetContentContainer.innerHTML
    unsearchable,        \* contents of the unsearchable region
    region,              \* contents of the search results region
    value,               \* searchInput.value
    clearHidden,         \* clearSearchButton has class d-none
    focus,               \* the element that has focus
    inputListener,       \* the input listener is registered
    clickListener,       \* the click listener is registered
    timers,              \* the pending timeouts of the debounced listener
    renders,             \* the calls of renderSearchResults in flight
    loaderJob,           \* the replaceNodeContents call of showLoader
    showLoaderPromise,   \* the promise showLoader returned
    notified,            \* what Notification.exception received
    unhandled,           \* rejections no handler observed
    searchedEmpty,       \* the search function was applied to an empty query
    failures,            \* the renders and replacements that failed
    lastWrite,           \* the last completed write to the results region
    lastEvent,           \* the value of the last input event
    quiet,               \* ms since the last input event the listener got
    windowOpen,          \* an input event awaits its debounced cycle
    eventsInWindow,      \* input events of the current (or last) window
    clearedSince,        \* a clear click came after the last input event
    nEvents,             \* user events so far
    lookedUp             \* init has looked up the unsearchable region

domVars == <<content, unsearchable, region, value, clearHidden, focus>>
listenerVars == <<inputListener, clickListener>>
argVars == <<data, unsearchableContent>>
promiseVars == <<bodyPromise, resolverCalls>>
eventVars == <<lastEvent, quiet, windowOpen, eventsInWindow, clearedSince, nEvents>>
histVars == <<eventVars, lookedUp>>

vars == <<pc, data, unsearchableContent, initPromise,
          bodyPromise, resolverCalls,
          content, unsearchable, region, value, clearHidden, focus,
          inputListener, clickListener,
          timers, renders, loaderJob, showLoaderPromise,
          notified, unhandled, searchedEmpty, failures,
          lastWrite, lastEvent, quiet, windowOpen, eventsInWindow, clearedSince,
          nEvents, lookedUp>>

Min(a, b) == IF a < b THEN a ELSE b

RemoveAt(s, i) == SubSeq(s, 1, i - 1) \o SubSeq(s, i + 1, Len(s))

(***************************************************************************)
(* The caller's search function (the value of searchFunc()): opaque to the *)
(* widget.  The caller modelled is the substring match of the spec's       *)
(* scenario, order preserving.                                             *)
(***************************************************************************)
Contains(item, q) ==
    \E i \in 0..Len(item) :
        /\ i + Len(q) <= Len(item)
        /\ SubSeq(item, i + 1, i + Len(q)) = q

RECURSIVE FilterItems(_, _)
FilterItems(D, q) ==
    IF D = <<>> THEN <<>>
    ELSE IF Contains(Head(D), q)
         THEN <<Head(D)>> \o FilterItems(Tail(D), q)
         ELSE FilterItems(Tail(D), q)

searchFunction(D, q) == FilterItems(D, q)

(***************************************************************************)
(* debounceCallee (lines 141-146): the filtered data, and the queries the  *)
(* caller's search function was applied to while computing it.             *)
(***************************************************************************)
debounceCalleeAlwaysSearches(searchValue, D) ==
    [result  |-> searchFunction(D, searchValue),
     applied |-> {searchValue}]

debounceCallee(searchValue, D) ==
    IF Len(searchValue) > 0
    THEN [result  |-> searchFunction(D, searchValue),
          applied |-> {searchValue}]
    ELSE [result |-> D, applied |-> {}]

(***************************************************************************)
(* core/templates: what a template renders to, and how rendered html       *)
(* lands in a node.  A node's contents are a sequence of fragments.        *)
(***************************************************************************)
LoadingHtml == [kind |-> "loading", items |-> <<>>]

SearchResultsHtml(searchResultsData) ==
    [kind |-> "searchresults", items |-> searchResultsData]

replaceNodeContents(node, html) == <<html>>

(***************************************************************************)
(* A settled or pending promise, and the resolve function of the Promise   *)
(* constructor (lines 174-176): the first call settles the promise; a      *)
(* plain value fulfils it, another promise is followed.                    *)
(***************************************************************************)
Pending == [state |-> "pending", value |-> "none"]

Fulfilled(v) == [state |-> "fulfilled", value |-> v]

Rejected(e) == [state |-> "rejected", value |-> e]

PromiseSettledByReject(p, v) ==
    IF p.state # "pending" THEN p ELSE [state |-> "rejected", value |-> v.value]

PromiseResolve(p, v) ==
    IF p.state # "pending" THEN p
    ELSE IF v.kind = "promise" THEN [state |-> v.state, value |-> v.value]
    ELSE Fulfilled(v.value)

(***************************************************************************)
(* The DOM of the container.  The search input, the clear button and the   *)
(* two regions are part of the body markup: they exist once a body is      *)
(* injected and are gone once the host has emptied the container.          *)
(***************************************************************************)
HostContent == "host"

EmptyContent == "empty"

SearchInputPresent == content \in Bodies

NoWrite == [kind |-> "none", origin |-> "none", query |-> <<>>, items |-> <<>>,
            overlap |-> FALSE]

(***************************************************************************)
(* Init: promisesAndResolvers() has been called, init() has not yet.       *)
(***************************************************************************)
Init ==
    /\ pc = "idle"
    /\ data \in Datasets
    /\ unsearchableContent \in UnsearchableContents
    /\ initPromise = "none"
    /\ bodyPromise = Pending
    /\ resolverCalls = <<>>
    /\ content = HostContent
    /\ unsearchable = <<>>
    /\ region = <<>>
    /\ value = <<>>
    /\ clearHidden = TRUE
    /\ focus = "elsewhere"
    /\ inputListener = FALSE
    /\ clickListener = FALSE
    /\ timers = <<>>
    /\ renders = <<>>
    /\ loaderJob = "none"
    /\ showLoaderPromise = [state |-> "none", value |-> "none"]
    /\ notified = <<>>
    /\ unhandled = <<>>
    /\ searchedEmpty = FALSE
    /\ failures = <<>>
    /\ lastWrite = NoWrite
    /\ lastEvent = <<>>
    /\ quiet = DebounceWait
    /\ windowOpen = FALSE
    /\ eventsInWindow = 0
    /\ clearedSince = FALSE
    /\ nEvents = 0
    /\ lookedUp = FALSE

(***************************************************************************)
(* promisesAndResolvers (lines 171-179) hands out bodyPromiseResolver; the *)
(* caller calls it, once, with the body markup or with a promise of it.    *)
(***************************************************************************)
bodyPromiseResolver(v) ==
    /\ resolverCalls = <<>>
    /\ bodyPromise' = PromiseResolve(bodyPromise, v)
    /\ resolverCalls' = Append(resolverCalls, v)
    /\ UNCHANGED <<pc, argVars, initPromise, domVars, listenerVars, timers, renders,
                   loaderJob, showLoaderPromise, notified, unhandled, searchedEmpty,
                   failures, lastWrite, histVars>>

(***************************************************************************)
(* init (lines 38-58): an async function with no await of its own.  It     *)
(* registers the then/catch callbacks on bodyPromise and returns; the      *)
(* promise it returns is fulfilled at once.                                *)
(***************************************************************************)
initShowsLoaderAtOnce ==
    /\ pc = "idle"
    /\ pc' = "waitBody"
    /\ initPromise' = "fulfilled"
    /\ region' = replaceNodeContents(region, LoadingHtml)
    /\ UNCHANGED <<argVars, promiseVars, content, unsearchable, value, clearHidden,
                   focus, listenerVars, timers, renders, loaderJob, showLoaderPromise,
                   notified, unhandled, searchedEmpty, failures, lastWrite, histVars>>

init ==
    /\ pc = "idle"
    /\ pc' = "waitBody"
    /\ initPromise' = "fulfilled"
    /\ UNCHANGED <<argVars, promiseVars, domVars, listenerVars, timers, renders,
                   loaderJob, showLoaderPromise, notified, unhandled, searchedEmpty,
                   failures, lastWrite, histVars>>

(***************************************************************************)
(* .catch(Notification.exception) (line 57): a rejection of bodyPromise or *)
(* of the then-callback reaches the notification surface.                  *)
(***************************************************************************)
initCatchMissing(e) ==
    /\ pc' = "failed"
    /\ unhandled' = Append(unhandled, e)
    /\ UNCHANGED notified

initCatchOther(e) ==
    /\ pc' = "failed"
    /\ notified' = Append(notified, "error")
    /\ UNCHANGED unhandled

initCatchContinues(e) ==
    /\ pc' = "register"
    /\ notified' = Append(notified, e)
    /\ UNCHANGED unhandled

initCatch(e) ==
    /\ pc' = "failed"
    /\ notified' = Append(notified, e)
    /\ UNCHANGED unhandled

initBodyRejected ==
    /\ pc = "waitBody"
    /\ bodyPromise.state = "rejected"
    /\ initCatch(bodyPromise.value)
    /\ UNCHANGED <<argVars, initPromise, promiseVars, domVars, listenerVars, timers,
                   renders, loaderJob, showLoaderPromise, searchedEmpty, failures,
                   lastWrite, histVars>>

(***************************************************************************)
(* The then-callback up to its first suspension (lines 39-51 and 126-127): *)
(* inject the body, append the unsearchable content when it is truthy,     *)
(* call showLoader, which asks for the loading template and suspends.      *)
(* The injected markup decides whether the clear button starts hidden.     *)
(***************************************************************************)
TruthyUnlessNull(u) == u # "null"

Truthy(u) == u # "null" /\ u # ""

initThen ==
    /\ pc = "waitBody"
    /\ bodyPromise.state = "fulfilled"
    /\ content' = bodyPromise.value
    /\ lookedUp' = Truthy(unsearchableContent)
    /\ unsearchable' = IF Truthy(unsearchableContent)
                       THEN Append(<<"base">>, unsearchableContent)
                       ELSE <<"base">>
    /\ region' = <<>>
    /\ value' = <<>>
    /\ clearHidden' \in BOOLEAN
    /\ focus' = "elsewhere"
    /\ showLoaderPromise' = Pending
    /\ pc' = "loaderTemplate"
    /\ UNCHANGED <<argVars, initPromise, promiseVars, listenerVars, timers, renders,
                   loaderJob, notified, unhandled, searchedEmpty, failures,
                   lastWrite, eventVars>>

(***************************************************************************)
(* showLoader (lines 126-129).  Once the loading template is rendered,     *)
(* replaceNodeContents is called and its promise is dropped: showLoader's  *)
(* own promise is fulfilled with the replacement still in flight.          *)
(***************************************************************************)
showLoaderRendered ==
    /\ pc = "loaderTemplate"
    /\ loaderJob' = "inflight"
    /\ showLoaderPromise' = Fulfilled("undefined")
    /\ pc' = "loaderShown"
    /\ UNCHANGED <<argVars, initPromise, promiseVars, domVars, listenerVars, timers,
                   renders, notified, unhandled, searchedEmpty, failures,
                   lastWrite, histVars>>

showLoaderRenderFailed ==
    /\ pc = "loaderTemplate"
    /\ Len(failures) < MaxFailures
    /\ failures' = Append(failures, [step |-> "loaderTemplate", origin |-> "init",
                                     error |-> TemplateError])
    /\ showLoaderPromise' = Rejected(TemplateError)
    /\ initCatch(TemplateError)
    /\ UNCHANGED <<argVars, initPromise, promiseVars, domVars, listenerVars, timers,
                   renders, loaderJob, searchedEmpty, lastWrite, histVars>>

loaderReplaceDone ==
    /\ loaderJob = "inflight"
    /\ loaderJob' = "done"
    /\ region' = replaceNodeContents(region, LoadingHtml)
    /\ lastWrite' = [kind |-> "loading", origin |-> "init", query |-> <<>>,
                     items |-> <<>>, overlap |-> FALSE]
    /\ UNCHANGED <<pc, argVars, initPromise, promiseVars, content, unsearchable, value,
                   clearHidden, focus, listenerVars, timers, renders, showLoaderPromise,
                   notified, unhandled, searchedEmpty, failures, histVars>>

loaderReplaceFailed ==
    /\ loaderJob = "inflight"
    /\ Len(failures) < MaxFailures
    /\ loaderJob' = "failed"
    /\ failures' = Append(failures, [step |-> "loaderReplace", origin |-> "init",
                                     error |-> ReplaceError])
    /\ unhandled' = Append(unhandled, ReplaceError)
    /\ UNCHANGED <<pc, argVars, initPromise, promiseVars, domVars, listenerVars, timers,
                   renders, showLoaderPromise, notified, searchedEmpty, lastWrite,
                   histVars>>

(***************************************************************************)
(* renderSearchResults (lines 155-162): ask for the results template       *)
(* (suspend), then replace the contents of the results region (suspend).   *)
(* Every call is a task of its own; several may be in flight.              *)
(***************************************************************************)
NewRender(origin, q, items) ==
    [origin |-> origin, query |-> q, items |-> items, stage |-> "template",
     overlap |-> \E i \in DOMAIN renders : renders[i].items = items]

renderSearchResults(origin, q, items) ==
    renders' = Append(renders, NewRender(origin, q, items))

renderTemplateResolved(i) ==
    /\ i \in DOMAIN renders
    /\ renders[i].stage = "template"
    /\ renders' = [renders EXCEPT ![i].stage = "replace"]
    /\ UNCHANGED <<pc, argVars, initPromise, promiseVars, domVars, listenerVars, timers,
                   loaderJob, showLoaderPromise, notified, unhandled, searchedEmpty,
                   failures, lastWrite, histVars>>

renderSearchResultsAppends(r) ==
    region' = Append(region, SearchResultsHtml(r.items))

renderSearchResultsReplace(r) ==
    region' = replaceNodeContents(region, SearchResultsHtml(r.items))

renderReplaceResolved(i) ==
    /\ i \in DOMAIN renders
    /\ renders[i].stage = "replace"
    /\ renderSearchResultsReplace(renders[i])
    /\ lastWrite' = [kind |-> "searchresults", origin |-> renders[i].origin,
                     query |-> renders[i].query, items |-> renders[i].items,
                     overlap |-> renders[i].overlap]
    /\ renders' = RemoveAt(renders, i)
    /\ pc' = IF renders[i].origin = "init" THEN "register" ELSE pc
    /\ UNCHANGED <<argVars, initPromise, promiseVars, content, unsearchable, value,
                   clearHidden, focus, listenerVars, timers, loaderJob,
                   showLoaderPromise, notified, unhandled, searchedEmpty, failures,
                   histVars>>

(***************************************************************************)
(* A rejected template render or replacement rejects the promise of        *)
(* renderSearchResults.  init awaits it inside the then-callback, so the   *)
(* rejection reaches init's catch; an event handler's promise is dropped   *)
(* by the DOM, so the rejection is left unhandled.                         *)
(***************************************************************************)
renderRejected(i, step, e) ==
    /\ i \in DOMAIN renders
    /\ renders[i].stage = IF step = "resultsTemplate" THEN "template" ELSE "replace"
    /\ Len(failures) < MaxFailures
    /\ failures' = Append(failures, [step |-> step, error |-> e,
                                     origin |-> IF renders[i].origin = "init"
                                                THEN "init" ELSE "event"])
    /\ renders' = RemoveAt(renders, i)
    /\ IF renders[i].origin = "init"
       THEN initCatch(e)
       ELSE /\ unhandled' = Append(unhandled, e)
            /\ UNCHANGED <<pc, notified>>
    /\ UNCHANGED <<argVars, initPromise, promiseVars, domVars, listenerVars, timers,
                   loaderJob, showLoaderPromise, searchedEmpty, lastWrite, histVars>>

renderTemplateRejected(i) == renderRejected(i, "resultsTemplate", TemplateError)

renderReplaceRejected(i) == renderRejected(i, "resultsReplace", ReplaceError)

(***************************************************************************)
(* The then-callback after `await showLoader(...)` (lines 51-53): it calls *)
(* renderSearchResults with the whole dataset.                             *)
(***************************************************************************)
initRenderResults ==
    /\ pc = "loaderShown"
    /\ pc' = "initRender"
    /\ renderSearchResults("init", <<>>, data)
    /\ UNCHANGED <<argVars, initPromise, promiseVars, domVars, listenerVars, timers,
                   loaderJob, showLoaderPromise, notified, unhandled, searchedEmpty,
                   failures, lastWrite, histVars>>

(***************************************************************************)
(* registerListenerEvents (lines 68-118), the synchronous part: nothing    *)
(* when the search input is gone, else focus the input and add the two     *)
(* listeners.                                                              *)
(***************************************************************************)
registerListenerEventsNoGuard ==
    /\ focus' = "searchInput"
    /\ inputListener' = TRUE
    /\ clickListener' = TRUE

registerListenerEventsGuardInverted ==
    IF SearchInputPresent
    THEN UNCHANGED <<focus, inputListener, clickListener>>
    ELSE /\ focus' = "searchInput"
         /\ inputListener' = TRUE
         /\ clickListener' = TRUE

registerListenerEvents ==
    IF ~SearchInputPresent
    THEN UNCHANGED <<focus, inputListener, clickListener>>
    ELSE /\ focus' = "searchInput"
         /\ inputListener' = TRUE
         /\ clickListener' = TRUE

initRegister ==
    /\ pc = "register"
    /\ pc' = "done"
    /\ registerListenerEvents
    /\ UNCHANGED <<argVars, initPromise, promiseVars, content, unsearchable, region,
                   value, clearHidden, timers, renders, loaderJob, showLoaderPromise,
                   notified, unhandled, searchedEmpty, failures, lastWrite, histVars>>

(***************************************************************************)
(* core/utils debounce(fn, wait): a call cancels the pending timeout and   *)
(* sets a new one; fn runs when a timeout has waited `wait` ms.  A timer   *)
(* is the time it has waited.                                              *)
(***************************************************************************)
debounce(pending) == <<0>>

(***************************************************************************)
(* The input handler (lines 82-98): show or hide the clear button from the *)
(* input's value, then render the filtered data.                           *)
(***************************************************************************)
inputHandlerNarrowsData(v) ==
    LET filtered == debounceCallee(v, data)
    IN  /\ clearHidden' = ~(Len(v) > 0)
        /\ data' = filtered.result
        /\ renderSearchResults("input", v, data')
        /\ searchedEmpty' = (searchedEmpty \/ <<>> \in filtered.applied)

inputHandlerNeverHides(v) ==
    LET filtered == debounceCallee(v, data)
    IN  /\ clearHidden' = IF Len(v) > 0 THEN FALSE ELSE clearHidden
        /\ renderSearchResults("input", v, filtered.result)
        /\ searchedEmpty' = (searchedEmpty \/ <<>> \in filtered.applied)
        /\ UNCHANGED data

inputHandler(v) ==
    LET filtered == debounceCallee(v, data)
    IN  /\ clearHidden' = ~(Len(v) > 0)
        /\ renderSearchResults("input", v, filtered.result)
        /\ searchedEmpty' = (searchedEmpty \/ <<>> \in filtered.applied)
        /\ UNCHANGED data

onInputUndebounced(q) ==
    /\ inputHandler(q)
    /\ UNCHANGED timers

onInput(q) ==
    /\ timers' = debounce(timers)
    /\ UNCHANGED <<clearHidden, renders, searchedEmpty>>

(***************************************************************************)
(* The user edits the search input: its value changes and the input event  *)
(* is dispatched to the listener, when one is registered.                  *)
(***************************************************************************)
InputEvent(q) ==
    /\ SearchInputPresent
    /\ nEvents < MaxEvents
    /\ nEvents' = nEvents + 1
    /\ value' = q
    /\ lastEvent' = q
    /\ clearedSince' = FALSE
    /\ IF inputListener
       THEN /\ onInput(q)
            /\ quiet' = 0
            /\ windowOpen' = TRUE
            /\ eventsInWindow' = IF windowOpen THEN eventsInWindow + 1 ELSE 1
       ELSE UNCHANGED <<timers, clearHidden, renders, searchedEmpty, quiet,
                        windowOpen, eventsInWindow>>
    /\ UNCHANGED <<pc, argVars, initPromise, promiseVars, content, unsearchable, region,
                   focus, listenerVars, loaderJob, showLoaderPromise, notified,
                   unhandled, failures, lastWrite, lookedUp>>

Tick ==
    /\ timers # <<>>
    /\ \E i \in DOMAIN timers : timers[i] < DebounceWait
    /\ quiet' = Min(quiet + TickMs, DebounceWait)
    /\ timers' = [i \in DOMAIN timers |-> Min(timers[i] + TickMs, DebounceWait)]
    /\ UNCHANGED <<pc, argVars, initPromise, promiseVars, domVars, listenerVars, renders,
                   loaderJob, showLoaderPromise, notified, unhandled, searchedEmpty,
                   failures, lastWrite, lastEvent, windowOpen, eventsInWindow,
                   clearedSince, nEvents, lookedUp>>

debounceFire(i) ==
    /\ i \in DOMAIN timers
    /\ timers[i] >= DebounceWait
    /\ timers' = RemoveAt(timers, i)
    /\ inputHandler(value)
    /\ windowOpen' = FALSE
    /\ UNCHANGED <<pc, unsearchableContent, initPromise, promiseVars, content,
                   unsearchable, region, value, focus, listenerVars, loaderJob,
                   showLoaderPromise, notified, unhandled, failures, lastWrite,
                   lastEvent, quiet, eventsInWindow, clearedSince, nEvents,
                   lookedUp>>

(***************************************************************************)
(* The click handler of the clear button (lines 101-117): empty the input, *)
(* focus it, hide the clear button, then render what debounceCallee gives  *)
(* for the input's (now empty) value.  The pending debounce timer is left  *)
(* alone.                                                                  *)
(***************************************************************************)
clearSearchInputKeepsButton ==
    /\ value' = <<>>
    /\ focus' = "searchInput"
    /\ UNCHANGED clearHidden

clearSearchInput ==
    /\ value' = <<>>
    /\ focus' = "searchInput"
    /\ clearHidden' = TRUE

clearClick ==
    /\ SearchInputPresent
    /\ clickListener
    /\ nEvents < MaxEvents
    /\ nEvents' = nEvents + 1
    /\ clearedSince' = TRUE
    /\ clearSearchInput
    /\ LET filtered == debounceCallee(value', data)
       IN  /\ renderSearchResults("clear", value', filtered.result)
           /\ searchedEmpty' = (searchedEmpty \/ <<>> \in filtered.applied)
    /\ UNCHANGED <<pc, argVars, initPromise, promiseVars, content, unsearchable, region,
                   listenerVars, timers, loaderJob, showLoaderPromise, notified,
                   unhandled, failures, lastWrite, lastEvent, quiet, windowOpen,
                   eventsInWindow, lookedUp>>

(***************************************************************************)
(* The host closes the dropdown and empties the container (the case of     *)
(* lines 72-75 when it happens during setup).  Detached nodes stay         *)
(* reachable from the closures that hold them, so timers and renders in    *)
(* flight still run; the user can no longer reach the input or the button. *)
(***************************************************************************)
closeWidget ==
    /\ SearchInputPresent
    /\ content' = EmptyContent
    /\ UNCHANGED <<pc, argVars, initPromise, promiseVars, unsearchable, region, value,
                   clearHidden, focus, listenerVars, timers, renders, loaderJob,
                   showLoaderPromise, notified, unhandled, searchedEmpty, failures,
                   lastWrite, histVars>>

Next ==
    \/ \E v \in ResolverValues : bodyPromiseResolver(v)
    \/ init
    \/ initBodyRejected
    \/ initThen
    \/ showLoaderRendered
    \/ showLoaderRenderFailed
    \/ loaderReplaceDone
    \/ loaderReplaceFailed
    \/ initRenderResults
    \/ \E i \in 1..(MaxEvents + 1) : renderTemplateResolved(i)
    \/ \E i \in 1..(MaxEvents + 1) : renderTemplateRejected(i)
    \/ \E i \in 1..(MaxEvents + 1) : renderReplaceResolved(i)
    \/ \E i \in 1..(MaxEvents + 1) : renderReplaceRejected(i)
    \/ initRegister
    \/ \E q \in Queries : InputEvent(q)
    \/ Tick
    \/ \E i \in 1..MaxEvents : debounceFire(i)
    \/ clearClick
    \/ closeWidget

Spec == Init /\ [][Next]_vars

(***************************************************************************)
(* The then-callback of init is one task: once bodyPromise is fulfilled    *)
(* the event loop runs it, and runs its continuation after each await once *)
(* the awaited template render or replacement has completed.  Nothing      *)
(* obliges the caller to call init or the resolver, nor the user to type,  *)
(* click or close the dropdown.                                            *)
(***************************************************************************)
initTask ==
    \/ initThen
    \/ showLoaderRendered
    \/ initRenderResults
    \/ \E i \in DOMAIN renders :
          renders[i].origin = "init" /\ renderTemplateResolved(i)
    \/ \E i \in DOMAIN renders :
          renders[i].origin = "init" /\ renderReplaceResolved(i)
    \/ initRegister

Fairness == WF_vars(initTask)

LiveSpec == Spec /\ Fairness

(***************************************************************************)
(* Helpers of the properties.                                              *)
(***************************************************************************)
Elems(seq) == {seq[i] : i \in DOMAIN seq}

CycleStarts == Len(renders') = Len(renders) + 1

StartedCycle == renders'[Len(renders')]

(***************************************************************************)
(* C1.  Filtering policy: the data handed to a results render is the       *)
(* dataset itself, unmodified and in order, when the query it was started  *)
(* for is empty, and exactly searchFunction(dataset, query) when it is not;*)
(* the caller's search function is never applied to an empty query.        *)
(***************************************************************************)
FilteringPolicy ==
    /\ \A i \in DOMAIN renders :
          renders[i].items = IF Len(renders[i].query) = 0
                             THEN data
                             ELSE searchFunction(data, renders[i].query)
    /\ ~searchedEmpty

FilteringPolicyWitness ==
    \E i, j \in DOMAIN renders :
        /\ renders[i].origin = "input"
        /\ Len(renders[i].query) > 0
        /\ renders[i].items # data
        /\ renders[i].items # <<>>
        /\ renders[j].origin = "input"
        /\ Len(renders[j].query) = 0
        /\ renders[j].items = data

ClearEquivalentToEmptyInput ==
    /\ [][(/\ CycleStarts
           /\ \/ StartedCycle.origin = "clear"
              \/ StartedCycle.origin = "input" /\ Len(value) = 0) =>
            /\ value' = <<>>
            /\ clearHidden'
            /\ StartedCycle.query = <<>>
            /\ StartedCycle.items = data]_vars
    /\ []((/\ lastWrite.kind = "searchresults"
           /\ lastWrite.origin \in {"clear", "input"}
           /\ lastWrite.query = <<>>) =>
            region = <<SearchResultsHtml(data)>>)

ClearEquivalentToEmptyInputWitness ==
    /\ clearedSince = FALSE
    /\ nEvents = 2
    /\ lastWrite.kind = "searchresults"
    /\ lastWrite.origin = "input"
    /\ lastWrite.query = <<>>
    /\ data # <<>>
    /\ region = <<SearchResultsHtml(data)>>
    /\ value = <<>>
    /\ clearHidden
    /\ renders = <<>>

(***************************************************************************)
(* C4 (as amended).  If the body promise rejects with e, the notification  *)
(* surface receives exactly e, once, and no widget setup occurs: no body   *)
(* is injected, no listener is registered, no loader is shown and no       *)
(* results are rendered, so the results region stays as it was when init   *)
(* was called.                                                             *)
(***************************************************************************)
NoWidgetSetup ==
    /\ content = HostContent
    /\ unsearchable = <<>>
    /\ region = <<>>
    /\ lastWrite = NoWrite
    /\ renders = <<>>
    /\ loaderJob = "none"
    /\ showLoaderPromise.state = "none"
    /\ ~inputListener
    /\ ~clickListener
    /\ timers = <<>>

RegisterWithoutInputIsNoOp ==
    /\ [][(pc = "register" /\ pc' = "done" /\ ~SearchInputPresent) =>
            UNCHANGED <<domVars, listenerVars, timers, renders, notified,
                        unhandled, lastWrite>>]_vars
    /\ [](~inputListener =>
            /\ timers = <<>>
            /\ ~windowOpen
            /\ \A i \in DOMAIN renders : renders[i].origin = "init")

RegisterWithoutInputIsNoOpWitness ==
    /\ pc = "done"
    /\ content = EmptyContent
    /\ ~inputListener
    /\ ~clickListener
    /\ focus = "elsewhere"
    /\ nEvents > 0

(***************************************************************************)
(* C6.  During init the loading placeholder is fully rendered (the         *)
(* replacement of the results region's contents has completed) before the  *)
(* first results render begins.                                            *)
(***************************************************************************)
LoaderRenderedBeforeResults ==
    pc \in {"initRender", "register", "done"} => loaderJob = "done"

(***************************************************************************)
(* C7.  Whenever the template render or the replacement of showLoader      *)
(* fails, the promise showLoader returned rejects with that failure, and   *)
(* the failure is not left unobserved.                                     *)
(***************************************************************************)
ShowLoaderPropagatesFailure ==
    \A k \in DOMAIN failures :
        failures[k].step \in {"loaderTemplate", "loaderReplace"} =>
            /\ showLoaderPromise = Rejected(failures[k].error)
            /\ failures[k].error \notin Elems(unhandled)

(***************************************************************************)
(* C8 (as amended).  A failure of the loading or results template render   *)
(* is not caught inside showLoader or renderSearchResults: it rejects the  *)
(* promise they return.  During init that rejection is caught by init's    *)
(* own catch and handed to the notification surface, the listeners are not *)
(* registered, and the promise init returned is fulfilled all the same; in *)
(* an event handler it is left unhandled.                                  *)
(***************************************************************************)
TemplateFailureReachesCatch ==
    \A k \in DOMAIN failures :
        LET f == failures[k]
        IN  /\ f.step = "loaderTemplate" => showLoaderPromise = Rejected(f.error)
            /\ (f.origin = "init" /\ f.step \in {"loaderTemplate", "resultsTemplate"}) =>
                  /\ pc = "failed"
                  /\ notified = <<f.error>>
                  /\ f.error \notin Elems(unhandled)
                  /\ initPromise = "fulfilled"
                  /\ ~inputListener
                  /\ ~clickListener
            /\ (f.origin # "init" /\ f.step = "resultsTemplate") =>
                  /\ f.error \in Elems(unhandled)
                  /\ f.error \notin Elems(notified)

TemplateFailureReachesCatchWitness ==
    /\ failures # <<>>
    /\ failures[1].origin = "init"
    /\ failures[1].step = "resultsTemplate"
    /\ notified = <<TemplateError>>
    /\ initPromise = "fulfilled"
    /\ loaderJob = "done"

(***************************************************************************)
(* C8 as stated: a template render failure during init rejects the promise *)
(* init returned to its caller.                                            *)
(***************************************************************************)
TemplateFailureRejectsInit ==
    \A k \in DOMAIN failures :
        (failures[k].origin = "init"
            /\ failures[k].step \in {"loaderTemplate", "resultsTemplate"}) =>
            initPromise = "rejected"

(***************************************************************************)
(* C9 (as amended).  The promise of promisesAndResolvers stays pending     *)
(* until bodyPromiseResolver is called; called with a value v that is not  *)
(* itself a promise, it makes the promise resolve to exactly v; the        *)
(* promise rejects only when the resolver is given a promise that rejects. *)
(***************************************************************************)
FirstResolverCall == resolverCalls[1]

ResolverSettlesBody ==
    /\ resolverCalls = <<>> => bodyPromise = Pending
    /\ resolverCalls # <<>> =>
          /\ FirstResolverCall.kind = "plain" =>
                bodyPromise = Fulfilled(FirstResolverCall.value)
          /\ FirstResolverCall.kind = "promise" =>
                bodyPromise = [state |-> FirstResolverCall.state,
                               value |-> FirstResolverCall.value]
    /\ bodyPromise.state = "rejected" =>
          /\ FirstResolverCall.kind = "promise"
          /\ FirstResolverCall.state = "rejected"

ResolverSettlesBodyWitness ==
    /\ resolverCalls # <<>>
    /\ FirstResolverCall.kind = "plain"
    /\ FirstResolverCall.value = "<div>x</div>"
    /\ bodyPromise = Fulfilled("<div>x</div>")
    /\ content = "<div>x</div>"

(***************************************************************************)
(* C9 as stated: once the resolver is called the promise is fulfilled, and *)
(* it can never reject.                                                    *)
(***************************************************************************)
BodyPromiseNeverRejects ==
    /\ resolverCalls = <<>> => bodyPromise = Pending
    /\ resolverCalls # <<>> => bodyPromise.state = "fulfilled"
    /\ bodyPromise.state # "rejected"

(***************************************************************************)
(* C10.  renderSearchResults is idempotent: whatever the results region    *)
(* held, and whether or not another call with the same data was in flight, *)
(* a completed call leaves in the region exactly the rendering of its      *)
(* data, so a second call with the same data leaves what the first left.   *)
(***************************************************************************)
RenderIdempotent ==
    region = IF lastWrite.kind = "none" THEN <<>>
             ELSE IF lastWrite.kind = "loading" THEN <<LoadingHtml>>
             ELSE <<SearchResultsHtml(lastWrite.items)>>

RenderIdempotentWitness ==
    /\ lastWrite.kind = "searchresults"
    /\ lastWrite.overlap
    /\ lastWrite.items # <<>>
    /\ region = <<SearchResultsHtml(lastWrite.items)>>
    /\ renders = <<>>
    /\ failures = <<>>
    /\ loaderJob = "done"

(***************************************************************************)
(* C11.  Last write wins: after at least one input cycle or clear click,   *)
(* once no debounce timer is pending and no render (nor the loader's       *)
(* replacement) is in flight and none has failed, the results region shows *)
(* the render of filter(data, value) for the current input value: a render *)
(* started for an older query has not overwritten that of a newer one.     *)
(***************************************************************************)
Quiescent ==
    /\ pc = "done"
    /\ timers = <<>>
    /\ renders = <<>>
    /\ loaderJob = "done"
    /\ failures = <<>>

LastWriteWins ==
    (Quiescent /\ lastWrite.origin \in {"input", "clear"}) =>
        region = <<SearchResultsHtml(debounceCallee(value, data).result)>>

(***************************************************************************)
(* C12.  Init ordering: the listeners are wired only after the first       *)
(* render of the whole dataset has completed, so no timer is pending and   *)
(* no input or clear render is in flight before that; and the steps after  *)
(* the body promise resolves occur in the order body injected, unsearch-   *)
(* able content appended, loader shown, whole dataset rendered, listeners  *)
(* wired.                                                                  *)
(***************************************************************************)
InitRenderInFlight == \E i \in DOMAIN renders : renders[i].origin = "init"

ListenersAfterFirstRender ==
    /\ (inputListener \/ clickListener) => (pc = "done" /\ ~InitRenderInFlight)
    /\ (\E i \in DOMAIN renders : renders[i].origin # "init") => pc = "done"
    /\ timers # <<>> => pc = "done"

InitStepsInOrder ==
    /\ pc \in {"idle", "waitBody"} =>
          /\ content = HostContent
          /\ unsearchable = <<>>
          /\ loaderJob = "none"
          /\ renders = <<>>
    /\ pc = "loaderTemplate" =>
          /\ content # HostContent
          /\ Len(unsearchable) >= 1
          /\ loaderJob = "none"
          /\ lastWrite = NoWrite
          /\ renders = <<>>
    /\ pc = "loaderShown" => renders = <<>>
    /\ pc = "initRender" =>
          /\ loaderJob \in {"done", "failed"}
          /\ InitRenderInFlight
    /\ pc \in {"register", "done"} =>
          /\ loaderJob \in {"done", "failed"}
          /\ ~InitRenderInFlight

InitOrdering == ListenersAfterFirstRender /\ InitStepsInOrder

(***************************************************************************)
(* C13.  init changes nothing in the container while the body promise is   *)
(* pending: in every state before that promise resolves, the container's   *)
(* contents, the results region, the unsearchable region and the listeners *)
(* are as they were when init was called, and no render has been started.  *)
(***************************************************************************)
NoMutationWhilePending ==
    bodyPromise.state = "pending" =>
        /\ content = HostContent
        /\ unsearchable = <<>>
        /\ region = <<>>
        /\ value = <<>>
        /\ clearHidden
        /\ focus = "elsewhere"
        /\ ~inputListener
        /\ ~clickListener
        /\ timers = <<>>
        /\ renders = <<>>
        /\ loaderJob = "none"
        /\ lastWrite = NoWrite
        /\ notified = <<>>

NoMutationWhilePendingWitness ==
    /\ pc = "waitBody"
    /\ initPromise = "fulfilled"
    /\ bodyPromise = Pending
    /\ resolverCalls = <<>>
    /\ region = <<>>

(***************************************************************************)
(* C14.  A failure of the loading or results template render during init   *)
(* stops the setup: the notification surface receives the failure exactly  *)
(* once, registerListenerEvents is never called (no listener, no timer, no *)
(* render), and no later input or click of the user changes the widget.    *)
(***************************************************************************)
TemplateFailedInInit ==
    \E k \in DOMAIN failures :
        /\ failures[k].origin = "init"
        /\ failures[k].step \in {"loaderTemplate", "resultsTemplate"}

TemplateFailureStopsSetup ==
    /\ [](TemplateFailedInInit =>
            /\ pc = "failed"
            /\ notified = <<TemplateError>>
            /\ TemplateError \notin Elems(unhandled)
            /\ ~inputListener
            /\ ~clickListener
            /\ timers = <<>>
            /\ renders = <<>>
            /\ ~windowOpen)
    /\ [][(TemplateFailedInInit /\ nEvents' # nEvents) =>
            UNCHANGED <<region, clearHidden, focus, listenerVars, timers, renders,
                        lastWrite, notified, unhandled>>]_vars

TemplateFailureStopsSetupWitness ==
    /\ failures # <<>>
    /\ failures[1].origin = "init"
    /\ failures[1].step = "loaderTemplate"
    /\ pc = "failed"
    /\ notified = <<TemplateError>>
    /\ nEvents = MaxEvents
    /\ value # <<>>
    /\ region = <<>>

(***************************************************************************)
(* C15.  The dataset is never modified: no step of init, of an input cycle *)
(* or of a clear click changes it, and every results render is started     *)
(* with the dataset itself or with what the caller's search function       *)
(* returns for the dataset and the input's current value.                  *)
(***************************************************************************)
DatasetNeverModified ==
    /\ [][data' = data]_vars
    /\ [][CycleStarts =>
            \/ StartedCycle.items = data
            \/ StartedCycle.items = searchFunction(data, value')]_vars

DatasetNeverModifiedWitness ==
    /\ data # <<>>
    /\ nEvents = 2
    /\ clearedSince
    /\ lastWrite.origin = "input"
    /\ lastWrite.items # data
    /\ lastWrite.items # <<>>
    /\ Len(renders) = 1
    /\ renders[1].origin = "clear"
    /\ renders[1].items = data

(***************************************************************************)
(* C16.  Once the body is injected, the unsearchable region holds its own  *)
(* content followed by the unsearchable content exactly when that content  *)
(* is present; when it is absent (null or the empty string) init has       *)
(* neither looked up nor changed the region.  Before the body is injected  *)
(* the region is neither looked up nor written.                            *)
(***************************************************************************)
BodyInjected == bodyPromise.state = "fulfilled" /\ pc \notin {"idle", "waitBody"}

UnsearchableAppendedWhenPresent ==
    /\ (BodyInjected /\ unsearchableContent \notin {"null", ""}) =>
          /\ lookedUp
          /\ unsearchable = <<"base", unsearchableContent>>
    /\ (BodyInjected /\ unsearchableContent \in {"null", ""}) =>
          /\ ~lookedUp
          /\ unsearchable = <<"base">>
    /\ ~BodyInjected =>
          /\ ~lookedUp
          /\ unsearchable = <<>>

UnsearchableAppendedWhenPresentWitness ==
    /\ BodyInjected
    /\ pc = "done"
    /\ unsearchableContent = "<p>extra</p>"
    /\ lookedUp
    /\ unsearchable = <<"base", "<p>extra</p>">>

(***************************************************************************)
(* C17.  Clear-affordance invariant: in every state with no debounce timer *)
(* pending that is reached after at least one debounced cycle or clear     *)
(* click, the clear button is visible if and only if the input's value is  *)
(* not empty.                                                              *)
(***************************************************************************)
CycleOrClearOccurred == eventsInWindow >= 1 \/ clearedSince

ClearAffordanceInvariant ==
    (timers = <<>> /\ CycleOrClearOccurred) => (~clearHidden <=> Len(value) > 0)

ClearAffordanceInvariantWitness ==
    /\ timers = <<>>
    /\ nEvents = 2
    /\ eventsInWindow = 1
    /\ ~clearedSince
    /\ Len(value) > 0
    /\ ~clearHidden
    /\ renders = <<>>

(***************************************************************************)
(* C18.  Liveness of init: if no template render or replacement ever       *)
(* fails, then from the moment init has been called and the body promise   *)
(* is fulfilled, the results region eventually holds the render of the     *)
(* whole dataset written by init, and init eventually finishes with the    *)
(* listeners wired if the search input is still present.                   *)
(***************************************************************************)
BodyResolvedForInit == pc = "waitBody" /\ bodyPromise.state = "fulfilled"

ShowsFullDataset ==
    /\ lastWrite.kind = "searchresults"
    /\ lastWrite.origin = "init"
    /\ region = <<SearchResultsHtml(data)>>

ListenersWiredIfPresent ==
    /\ pc = "done"
    /\ SearchInputPresent => (inputListener /\ clickListener)

====
